---------------------------- MODULE Spec2Model ----------------------------
(***************************************************************************)
(* RespMath.py: the oxygen estimator (validate_flow_rate,                  *)
(* round_to_one_decimal, calculate_oxygen_percentage) and the reference    *)
(* table built from it (generate_reference_table).                         *)
(*                                                                         *)
(* Numbers.  A Python float is a record [cls, val]: cls is "finite",       *)
(* "nan", "inf" or "neginf", and val is the value of a finite float in     *)
(* units of 1/Scale (flow rates in 1/Scale LPM, percentages in 1/Scale     *)
(* percent).  Arithmetic on finite floats is exact decimal arithmetic on   *)
(* that grid; the binary representation error of a decimal literal (the    *)
(* double nearest 10.45 is a little below 10.45) is not part of the model. *)
(* Text is a tuple of one-character strings, so that float(text) and       *)
(* text.split(" (") are computed character by character.                  *)
(***************************************************************************)
EXTENDS Integers, Sequences, FiniteSets, TLC

\* Module constants, RespMath.py lines 18-22.
ROOM_AIR_O2_PERCENTAGE == 21
MAX_O2_PERCENTAGE == 100
O2_INCREMENT_PER_LPM == 4
MAX_FLOW_RATE == 50
MIN_FLOW_RATE == 0

\* Resolution of the number grid: 1/400.  Hundredths of an LPM (6.01) and,
\* through the factor O2_INCREMENT_PER_LPM, hundredths of a percent
\* (21 + 4 * 0.0125 = 21.05) are both on it.
Scale == 100 * O2_INCREMENT_PER_LPM

\* Bounds of the inputs explored: numbers from -MinFlowInput to MaxFlowInput
\* LPM, every grid point between them; pairs of flow rates on the coarser
\* grid of multiples of PairStep / Scale LPM.
MaxFlowInput == 52
MinFlowInput == 2
PairStep == 35

-----------------------------------------------------------------------------
(* Python floats *)

Fin(v) == [cls |-> "finite", val |-> v]
NaN == [cls |-> "nan", val |-> 0]
PosInf == [cls |-> "inf", val |-> 0]
NegInf == [cls |-> "neginf", val |-> 0]

\* A whole number n as a float.
Num(n) == Fin(n * Scale)

\* a < b and a <= b on floats: every comparison with NaN is false.
FLess(a, b) ==
    /\ a.cls # "nan" /\ b.cls # "nan"
    /\ \/ a.cls = "neginf" /\ b.cls # "neginf"
       \/ a.cls = "finite" /\ b.cls = "inf"
       \/ a.cls = "finite" /\ b.cls = "finite" /\ a.val < b.val

FLessEq(a, b) ==
    /\ a.cls # "nan" /\ b.cls # "nan"
    /\ (FLess(a, b) \/ a = b)

\* min(a, b) of Python: a, unless b < a.
PyMin(a, b) == IF FLess(b, a) THEN b ELSE a

-----------------------------------------------------------------------------
(* Text *)

\* "No supplemental oxygen (room air)"
ROOM_AIR_LABEL ==
    <<"N", "o", " ", "s", "u", "p", "p", "l", "e", "m", "e", "n", "t", "a", "l", " ", "o", "x", "y", "g", "e", "n", " ", "(", "r", "o", "o", "m", " ", "a", "i", "r", ")">>

\* "Nasal Cannula"
NASAL_CANNULA ==
    <<"N", "a", "s", "a", "l", " ", "C", "a", "n", "n", "u", "l", "a">>

\* "Simple Mask"
SIMPLE_MASK ==
    <<"S", "i", "m", "p", "l", "e", " ", "M", "a", "s", "k">>

\* "Non-rebreather/Partial Rebreather Mask"
NON_REBREATHER ==
    <<"N", "o", "n", "-", "r", "e", "b", "r", "e", "a", "t", "h", "e", "r", "/", "P", "a", "r", "t", "i", "a", "l", " ", "R", "e", "b", "r", "e", "a", "t", "h", "e", "r", " ", "M", "a", "s", "k">>

\* "High Flow System"
HIGH_FLOW_SYSTEM ==
    <<"H", "i", "g", "h", " ", "F", "l", "o", "w", " ", "S", "y", "s", "t", "e", "m">>

\* "High Flow System or Venturi Mask"
FALL_THROUGH_LABEL ==
    <<"H", "i", "g", "h", " ", "F", "l", "o", "w", " ", "S", "y", "s", "t", "e", "m", " ", "o", "r", " ", "V", "e", "n", "t", "u", "r", "i", " ", "M", "a", "s", "k">>

\* "Error in calculation"
ERROR_LABEL ==
    <<"E", "r", "r", "o", "r", " ", "i", "n", " ", "c", "a", "l", "c", "u", "l", "a", "t", "i", "o", "n">>

\* The first index at which `sep` occurs in `s`, or 0.
Find(s, sep) ==
    LET hits == {i \in 1..(Len(s) - Len(sep) + 1) :
                    SubSeq(s, i, i + Len(sep) - 1) = sep}
    IN  IF hits = {} THEN 0 ELSE CHOOSE i \in hits : \A j \in hits : i <= j

\* A faulty variant of SplitFirst: the text is cut at its first space.
SplitAtFirstSpace(s, sep) ==
    IF Find(s, <<" ">>) = 0 THEN s ELSE SubSeq(s, 1, Find(s, <<" ">>) - 1)

\* s.split(sep)[0]: the text before the first occurrence of sep, or all of s.
SplitFirst(s, sep) ==
    IF Find(s, sep) = 0 THEN s ELSE SubSeq(s, 1, Find(s, sep) - 1)

Digits == <<"0", "1", "2", "3", "4", "5", "6", "7", "8", "9">>

IsDigit(c) == \E d \in 1..10 : Digits[d] = c

DigitValue(c) == (CHOOSE d \in 1..10 : Digits[d] = c) - 1

RECURSIVE DigitsValue(_)
DigitsValue(s) ==
    IF s = <<>> THEN 0
    ELSE DigitsValue(SubSeq(s, 1, Len(s) - 1)) * 10 + DigitValue(s[Len(s)])

RECURSIVE NatToText(_)
NatToText(n) ==
    IF n < 10 THEN <<Digits[n + 1]>>
    ELSE NatToText(n \div 10) \o <<Digits[(n % 10) + 1]>>

-----------------------------------------------------------------------------
(* Python objects handed to the estimator *)

PyFloatObj(fl) == [kind |-> "float", fl |-> fl, n |-> 0, text |-> <<>>]
PyIntObj(n) == [kind |-> "int", fl |-> NaN, n |-> n, text |-> <<>>]
PyStrObj(text) == [kind |-> "str", fl |-> NaN, n |-> 0, text |-> text]
PyNone == [kind |-> "none", fl |-> NaN, n |-> 0, text |-> <<>>]

Converted(fl) == [raised |-> FALSE, fl |-> fl]
ConversionError == [raised |-> TRUE, fl |-> NaN]

\* float(text) for unsigned text: "nan", "inf", or a decimal numeral.
ParseUnsigned(s) ==
    IF s = <<"n", "a", "n">> THEN Converted(NaN)
    ELSE IF s = <<"i", "n", "f">> THEN Converted(PosInf)
    ELSE IF s # <<>> /\ \A i \in 1..Len(s) : IsDigit(s[i])
         THEN Converted(Num(DigitsValue(s)))
    ELSE ConversionError

Negate(c) ==
    IF c.raised \/ c.fl.cls = "nan" THEN c
    ELSE IF c.fl.cls = "inf" THEN Converted(NegInf)
    ELSE IF c.fl.cls = "neginf" THEN Converted(PosInf)
    ELSE Converted(Fin(0 - c.fl.val))

\* float(x), line 46: a float is itself, an int its value, text is parsed
\* (ValueError when it denotes no number), None raises TypeError.
PyFloat(x) ==
    CASE x.kind = "float" -> Converted(x.fl)
      [] x.kind = "int" -> Converted(Num(x.n))
      [] x.kind = "str" ->
            IF x.text # <<>> /\ x.text[1] = "-"
            THEN Negate(ParseUnsigned(Tail(x.text)))
            ELSE IF x.text # <<>> /\ x.text[1] = "+"
            THEN ParseUnsigned(Tail(x.text))
            ELSE ParseUnsigned(x.text)
      [] OTHER -> ConversionError

\* isinstance(flow_rate, (int, float)) after float(): a float of any class.
IsIntOrFloat(fl) == fl.cls \in {"finite", "nan", "inf", "neginf"}

Accepted(fl) == [raised |-> FALSE, fl |-> fl, error |-> ""]
ValueError(msg) == [raised |-> TRUE, fl |-> NaN, error |-> msg]

\* A faulty variant of validate_flow_rate: a flow rate above the maximum is
\* replaced by the maximum instead of being refused.
validate_flow_rate_clamping(flow_rate) ==
    LET c == PyFloat(flow_rate)
    IN  IF c.raised THEN ValueError("Flow rate must be a valid number")
        ELSE IF FLess(c.fl, Num(MIN_FLOW_RATE))
             THEN ValueError("Flow rate cannot be negative. Minimum value is 0.0")
        ELSE IF FLess(Num(MAX_FLOW_RATE), c.fl)
             THEN Accepted(Num(MAX_FLOW_RATE))
        ELSE Accepted(c.fl)

\* validate_flow_rate, lines 32-59.
validate_flow_rate(flow_rate) ==
    LET c == PyFloat(flow_rate)
    IN  IF c.raised THEN ValueError("Flow rate must be a valid number")
        ELSE IF ~ IsIntOrFloat(c.fl)
             THEN ValueError("Flow rate must be a numeric value")
        ELSE IF FLess(c.fl, Num(MIN_FLOW_RATE))
             THEN ValueError("Flow rate cannot be negative. Minimum value is 0.0")
        ELSE IF FLess(Num(MAX_FLOW_RATE), c.fl)
             THEN ValueError("Flow rate cannot exceed 50.0 LPM")
        ELSE Accepted(c.fl)

\* The value of one tenth on the number grid.
Tenth == Scale \div 10

\* A faulty variant of QuantizeHalfUp: the rounding of round(value, 1), where
\* a dropped part of exactly half a tenth goes to the even digit.
QuantizeHalfEven(m) ==
    IF 2 * (m % Tenth) > Tenth
       \/ (2 * (m % Tenth) = Tenth /\ (m \div Tenth) % 2 = 1)
    THEN ((m \div Tenth) + 1) * Tenth
    ELSE (m \div Tenth) * Tenth

\* Decimal(str(value)).quantize(Decimal('0.1'), rounding=ROUND_HALF_UP) on a
\* magnitude: the digits after the first decimal are dropped and the last
\* kept digit goes up when the dropped part is at least half a tenth.
QuantizeHalfUp(m) ==
    IF 2 * (m % Tenth) >= Tenth THEN ((m \div Tenth) + 1) * Tenth
    ELSE (m \div Tenth) * Tenth

\* round_to_one_decimal, lines 61-74.  A NaN quantizes to NaN.  An infinity
\* makes quantize raise InvalidOperation; the except clause then names
\* decimal.InvalidOperation, the module `decimal` is not imported under that
\* name, and the call raises.
round_to_one_decimal(value) ==
    CASE value.cls = "finite" ->
            IF value.val >= 0
            THEN Converted(Fin(QuantizeHalfUp(value.val)))
            ELSE Converted(Fin(0 - QuantizeHalfUp(0 - value.val)))
      [] value.cls = "nan" -> Converted(NaN)
      [] OTHER -> ConversionError

\* DEVICE_RANGES, lines 25-30, in the dict's insertion order.
DEVICE_RANGES ==
    << [device |-> NASAL_CANNULA, min |-> Num(0), max |-> Num(6)],
       [device |-> SIMPLE_MASK, min |-> Num(6), max |-> Num(10)],
       [device |-> NON_REBREATHER, min |-> Num(10), max |-> Num(15)],
       [device |-> HIGH_FLOW_SYSTEM, min |-> Num(15), max |-> PosInf] >>

\* A faulty variant of InRange: the lower bound belongs to the range and the
\* upper bound does not.
InRangeLowerInclusive(range_dict, flow_rate_lpm) ==
    /\ FLessEq(range_dict.min, flow_rate_lpm)
    /\ FLess(flow_rate_lpm, range_dict.max)

\* range_dict["min"] < flow_rate_lpm <= range_dict["max"], line 99.
InRange(range_dict, flow_rate_lpm) ==
    /\ FLess(range_dict.min, flow_rate_lpm)
    /\ FLessEq(flow_rate_lpm, range_dict.max)

\* Faulty variants of EstimatedPercentage: the nasal cannula increment
\* subtracted; the simple mask formula counted from 6, the lower bound of its
\* range; the non-rebreather slope subtracted.
EstimatedPercentageNasalSubtracted(device, flow_rate_lpm) ==
    IF device = NASAL_CANNULA
    THEN Fin(ROOM_AIR_O2_PERCENTAGE * Scale
             - flow_rate_lpm.val * O2_INCREMENT_PER_LPM)
    ELSE IF device = SIMPLE_MASK
    THEN Fin(40 * Scale + (flow_rate_lpm.val - 5 * Scale) * O2_INCREMENT_PER_LPM)
    ELSE IF device = NON_REBREATHER
    THEN Fin(60 * Scale + (flow_rate_lpm.val - 10 * Scale) * 3)
    ELSE Num(90)

EstimatedPercentageSimpleFromSix(device, flow_rate_lpm) ==
    IF device = NASAL_CANNULA
    THEN Fin(ROOM_AIR_O2_PERCENTAGE * Scale
             + flow_rate_lpm.val * O2_INCREMENT_PER_LPM)
    ELSE IF device = SIMPLE_MASK
    THEN Fin(40 * Scale + (flow_rate_lpm.val - 6 * Scale) * O2_INCREMENT_PER_LPM)
    ELSE IF device = NON_REBREATHER
    THEN Fin(60 * Scale + (flow_rate_lpm.val - 10 * Scale) * 3)
    ELSE Num(90)

EstimatedPercentageSlopeSubtracted(device, flow_rate_lpm) ==
    IF device = NASAL_CANNULA
    THEN Fin(ROOM_AIR_O2_PERCENTAGE * Scale
             + flow_rate_lpm.val * O2_INCREMENT_PER_LPM)
    ELSE IF device = SIMPLE_MASK
    THEN Fin(40 * Scale + (flow_rate_lpm.val - 5 * Scale) * O2_INCREMENT_PER_LPM)
    ELSE IF device = NON_REBREATHER
    THEN Fin(60 * Scale - (flow_rate_lpm.val - 10 * Scale) * 3)
    ELSE Num(90)

\* estimated_percentage, lines 100-107.  A flow rate inside one of the first
\* three ranges is finite.
EstimatedPercentage(device, flow_rate_lpm) ==
    IF device = NASAL_CANNULA
    THEN Fin(ROOM_AIR_O2_PERCENTAGE * Scale
             + flow_rate_lpm.val * O2_INCREMENT_PER_LPM)
    ELSE IF device = SIMPLE_MASK
    THEN Fin(40 * Scale + (flow_rate_lpm.val - 5 * Scale) * O2_INCREMENT_PER_LPM)
    ELSE IF device = NON_REBREATHER
    THEN Fin(60 * Scale + (flow_rate_lpm.val - 10 * Scale) * 3)
    ELSE Num(90)

NoFloat == [cls |-> "none", val |-> 0]

Returned(percentage, device, logged, path) ==
    [kind |-> "return", percentage |-> percentage, device |-> device,
     error |-> "", logged |-> logged, path |-> path]

Raised(msg) ==
    [kind |-> "raise", percentage |-> NoFloat, device |-> <<>>,
     error |-> msg, logged |-> 0, path |-> <<"validate">>]

Pending ==
    [kind |-> "pending", percentage |-> NoFloat, device |-> <<>>,
     error |-> "", logged |-> 0, path |-> <<>>]

\* The body of the try block, lines 96-111, for a validated positive flow
\* rate: the first range that holds the flow rate decides; with none, the
\* fall-through of line 111.  `logged` counts the st.error calls made.
DeviceLoop(flow_rate_lpm) ==
    LET hits == {i \in 1..Len(DEVICE_RANGES) :
                    InRange(DEVICE_RANGES[i], flow_rate_lpm)}
    IN  IF hits = {}
        THEN Returned(Num(MAX_O2_PERCENTAGE), FALL_THROUGH_LABEL, 0,
                      <<"validate", "loop">>)
        ELSE LET i == CHOOSE k \in hits : \A j \in hits : k <= j
                 device == DEVICE_RANGES[i].device
                 estimated == EstimatedPercentage(device, flow_rate_lpm)
                 rounded == round_to_one_decimal(
                                PyMin(estimated, Num(MAX_O2_PERCENTAGE)))
             IN  IF rounded.raised
                 THEN Returned(Num(ROOM_AIR_O2_PERCENTAGE), ERROR_LABEL, 1,
                               <<"validate", "loop", "estimate", "clamp",
                                 "round", "except">>)
                 ELSE Returned(rounded.fl, device, 0,
                               <<"validate", "loop", "estimate", "clamp",
                                 "round">>)

\* A faulty variant of calculate_oxygen_percentage: the room-air return of
\* lines 93-94 is missing, and a flow rate of 0 goes through the device loop.
calculate_oxygen_percentage_without_room_air(flow_rate_lpm) ==
    LET v == validate_flow_rate(flow_rate_lpm)
    IN  IF v.raised THEN Raised(v.error) ELSE DeviceLoop(v.fl)

\* calculate_oxygen_percentage, lines 76-114.  The validation of line 91 is
\* outside the try block: its ValueError leaves the function.
calculate_oxygen_percentage(flow_rate_lpm) ==
    LET v == validate_flow_rate(flow_rate_lpm)
    IN  IF v.raised THEN Raised(v.error)
        ELSE IF FLessEq(v.fl, Num(0))
             THEN Returned(Num(ROOM_AIR_O2_PERCENTAGE), ROOM_AIR_LABEL, 0,
                           <<"validate">>)
        ELSE DeviceLoop(v.fl)

\* f"{percentage:.1f}%", line 173, for a finite percentage: one decimal,
\* ties to the even digit, a minus sign before a negative value.
FormatMagnitude(m) ==
    LET q == m \div Tenth
        r == m % Tenth
        t == IF 2 * r > Tenth \/ (2 * r = Tenth /\ q % 2 = 1) THEN q + 1 ELSE q
    IN  NatToText(t \div 10) \o <<".", Digits[(t % 10) + 1], "%">>

FormatPercent(percentage) ==
    IF percentage.val < 0
    THEN <<"-">> \o FormatMagnitude(0 - percentage.val)
    ELSE FormatMagnitude(percentage.val)

\* flow_values, line 165.
flow_values == <<0, 1, 2, 3, 4, 5, 6, 8, 10, 12, 15>>

\* The loop of lines 168-178 over the first k flow values: a row is appended
\* for a flow whose calculation returns, and a flow whose calculation raises
\* is warned about and skipped.
RECURSIVE TableAfter(_)
TableAfter(k) ==
    IF k = 0 THEN [rows |-> <<>>, warnings |-> 0, logged |-> 0]
    ELSE LET before == TableAfter(k - 1)
             flow == flow_values[k]
             r == calculate_oxygen_percentage(PyIntObj(flow))
         IN  IF r.kind = "raise"
             THEN [before EXCEPT !.warnings = @ + 1]
             ELSE [before EXCEPT
                     !.rows = Append(@, [flow |-> flow,
                                         o2 |-> FormatPercent(r.percentage),
                                         device |-> SplitFirst(r.device, <<" ", "(">>)]),
                     !.logged = @ + r.logged]

\* generate_reference_table, lines 157-183.
generate_reference_table == TableAfter(Len(flow_values))

-----------------------------------------------------------------------------
(* The state: the arguments of the calls made, what each call did, the     *)
(* st.error and st.warning messages shown, and the reference table.         *)

VARIABLES arg, outcome, arg2, outcome2, errors, warnings, table

vars == <<arg, outcome, arg2, outcome2, errors, warnings, table>>

NoArgument == [kind |-> "unused", fl |-> NaN, n |-> 0, text |-> <<>>]
NoTable == [generated |-> FALSE, rows |-> <<>>]

FlowGrid == (0 - MinFlowInput * Scale)..(MaxFlowInput * Scale)

Texts ==
    { <<>>, <<"a", "b", "c">>, <<"5">>, <<"1", "2">>, <<"+", "7">>,
      <<"5", "0">>, <<"5", "1">>, <<"1", "0", "0">>, <<"-", "1">>, <<"-", "0">>,
      <<"n", "a", "n">>, <<"-", "n", "a", "n">>, <<"i", "n", "f">>,
      <<"-", "i", "n", "f">>, <<"1", "2", "a">>, <<"-">> }

Inputs ==
    {PyFloatObj(Fin(v)) : v \in FlowGrid}
    \cup {PyFloatObj(NaN), PyFloatObj(PosInf), PyFloatObj(NegInf)}
    \cup {PyIntObj(n) : n \in (0 - MinFlowInput)..MaxFlowInput}
    \cup {PyIntObj(100), PyFloatObj(Num(100))}
    \cup {PyStrObj(t) : t \in Texts}
    \cup {PyNone}

\* The flow rates compared in pairs: the coarse grid, and the two sides of
\* the 6 LPM boundary, 6 and 6.01.
PairGrid ==
    {k * PairStep : k \in 0..((MaxFlowInput * Scale) \div PairStep)}
    \cup {6 * Scale, 6 * Scale + (Scale \div 100)}

Init ==
    /\ arg \in Inputs
    /\ outcome = Pending
    /\ arg2 = NoArgument
    /\ outcome2 = Pending
    /\ errors = 0
    /\ warnings = 0
    /\ table = NoTable

InitPair ==
    /\ \E a \in PairGrid, b \in PairGrid :
          /\ a <= b
          /\ arg = PyFloatObj(Fin(a))
          /\ arg2 = PyFloatObj(Fin(b))
    /\ outcome = Pending
    /\ outcome2 = Pending
    /\ errors = 0
    /\ warnings = 0
    /\ table = NoTable

\* A call calculate_oxygen_percentage(arg).
Calculate ==
    /\ outcome.kind = "pending"
    /\ outcome' = calculate_oxygen_percentage(arg)
    /\ errors' = errors + outcome'.logged
    /\ UNCHANGED <<arg, arg2, outcome2, warnings, table>>

\* A later call calculate_oxygen_percentage(arg2).
CalculateSecond ==
    /\ outcome.kind # "pending"
    /\ arg2 # NoArgument
    /\ outcome2.kind = "pending"
    /\ outcome2' = calculate_oxygen_percentage(arg2)
    /\ errors' = errors + outcome2'.logged
    /\ UNCHANGED <<arg, outcome, arg2, warnings, table>>

\* A call generate_reference_table().
GenerateReferenceTable ==
    /\ ~ table.generated
    /\ LET t == generate_reference_table
       IN  /\ table' = [generated |-> TRUE, rows |-> t.rows]
           /\ warnings' = warnings + t.warnings
           /\ errors' = errors + t.logged
    /\ UNCHANGED <<arg, outcome, arg2, outcome2>>

Next == Calculate \/ GenerateReferenceTable

Spec == Init /\ [][Next]_vars

NextPair == Calculate \/ CalculateSecond

SpecPair == InitPair /\ [][NextPair]_vars

-----------------------------------------------------------------------------
(* The properties.  A flow rate "valid" in their sense is a number (a      *)
(* Python int or finite float) f with 0 <= f <= 50; FlowOf is its value on  *)
(* the number grid.                                                        *)

Done == outcome.kind # "pending"
BothDone == outcome.kind # "pending" /\ outcome2.kind # "pending"

IsFiniteNumber(x) ==
    x.kind = "int" \/ (x.kind = "float" /\ x.fl.cls = "finite")

FlowOf(x) == IF x.kind = "int" THEN x.n * Scale ELSE x.fl.val

ValidFlow(x) ==
    IsFiniteNumber(x) /\ 0 <= FlowOf(x) /\ FlowOf(x) <= 50 * Scale

PositiveValidFlow(x) == ValidFlow(x) /\ FlowOf(x) > 0

\* A percentage given in tenths: Tenths(450) is 45.0.
Tenths(t) == Fin(t * Tenth)

\* The band formulas as the specification states them, before rounding, and
\* the device of each band, for a flow rate f > 0 on the number grid.
StatedValue(f) ==
    IF f <= 6 * Scale THEN 21 * Scale + 4 * f
    ELSE IF f <= 10 * Scale THEN 40 * Scale + 4 * (f - 5 * Scale)
    ELSE IF f <= 15 * Scale THEN 60 * Scale + 3 * (f - 10 * Scale)
    ELSE 90 * Scale

StatedDevice(f) ==
    IF f <= 6 * Scale THEN NASAL_CANNULA
    ELSE IF f <= 10 * Scale THEN SIMPLE_MASK
    ELSE IF f <= 15 * Scale THEN NON_REBREATHER
    ELSE HIGH_FLOW_SYSTEM

\* The band of a flow rate: 1 for (0,6], 2 for (6,10], 3 for (10,15],
\* 4 for (15,50], and 0 outside them.
BandOf(f) ==
    IF f <= 0 \/ f > 50 * Scale THEN 0
    ELSE IF f <= 6 * Scale THEN 1
    ELSE IF f <= 10 * Scale THEN 2
    ELSE IF f <= 15 * Scale THEN 3
    ELSE 4

StatedMin(a, b) == IF a <= b THEN a ELSE b

\* C1: for every flow rate that validate_flow_rate accepts (0 <= f <= 50),
\* and for whatever else the call returns a result for, the percentage
\* returned satisfies 21 <= percentage <= 100.
C1_PercentageWithinRange ==
    /\ (Done /\ ValidFlow(arg)) => outcome.kind = "return"
    /\ outcome.kind = "return" =>
          /\ outcome.percentage.cls = "finite"
          /\ 21 * Scale <= outcome.percentage.val
          /\ outcome.percentage.val <= 100 * Scale

C1_Witness ==
    /\ outcome.kind = "return"
    /\ arg = PyFloatObj(Num(50))
    /\ outcome.percentage = Tenths(900)

\* C2 (as stated): for every input that validate_flow_rate accepts, the
\* device returned is the room-air label, Nasal Cannula, Simple Mask,
\* Non-rebreather/Partial Rebreather Mask or High Flow System; the
\* fall-through result and the exception-branch result are never returned.
C2_DeviceIsOneOfFive ==
    outcome.kind = "return" =>
        /\ outcome.device \in {ROOM_AIR_LABEL, NASAL_CANNULA, SIMPLE_MASK,
                               NON_REBREATHER, HIGH_FLOW_SYSTEM}
        /\ outcome.device # FALL_THROUGH_LABEL
        /\ outcome.device # ERROR_LABEL

\* The inputs of C3.  Non-numeric: None, and text that denotes no number.
\* Negative: a number below 0, minus infinity, or text denoting one.  Above
\* the maximum: a number above 50, infinity, or text denoting one.
NonNumeric(x) ==
    \/ x.kind = "none"
    \/ x.kind = "str" /\ x.text \in {<<>>, <<"a", "b", "c">>,
                                      <<"1", "2", "a">>, <<"-">>}

Negative(x) ==
    \/ x.kind = "int" /\ x.n < 0
    \/ x.kind = "float" /\ x.fl.cls = "finite" /\ x.fl.val < 0
    \/ x.kind = "float" /\ x.fl.cls = "neginf"
    \/ x.kind = "str" /\ x.text \in {<<"-", "1">>, <<"-", "i", "n", "f">>}

AboveMaximum(x) ==
    \/ x.kind = "int" /\ x.n > 50
    \/ x.kind = "float" /\ x.fl.cls = "finite" /\ x.fl.val > 50 * Scale
    \/ x.kind = "float" /\ x.fl.cls = "inf"
    \/ x.kind = "str" /\ x.text \in {<<"5", "1">>, <<"1", "0", "0">>,
                                      <<"i", "n", "f">>}

C4_BandFormulaAndDevice ==
    (Done /\ PositiveValidFlow(arg)) =>
        /\ outcome.kind = "return"
        /\ outcome.device = StatedDevice(FlowOf(arg))
        /\ outcome.percentage.cls = "finite"
        /\ outcome.percentage.val % Tenth = 0
        /\ 2 * (outcome.percentage.val - StatedValue(FlowOf(arg))) <= Tenth
        /\ 2 * (StatedValue(FlowOf(arg)) - outcome.percentage.val) <= Tenth
        /\ FlowOf(arg) = 6 * Scale =>
              outcome.percentage = Tenths(450) /\ outcome.device = NASAL_CANNULA
        /\ FlowOf(arg) = 10 * Scale =>
              outcome.percentage = Tenths(600) /\ outcome.device = SIMPLE_MASK
        /\ FlowOf(arg) = 15 * Scale =>
              outcome.percentage = Tenths(750) /\ outcome.device = NON_REBREATHER
        /\ FlowOf(arg) = 16 * Scale =>
              outcome.percentage = Tenths(900) /\ outcome.device = HIGH_FLOW_SYSTEM

C4_Witness ==
    /\ arg = PyFloatObj(Num(15))
    /\ outcome.kind = "return"
    /\ outcome.percentage = Tenths(750)
    /\ outcome.device = NON_REBREATHER

\* "no supplemental oxygen (room air)", the label as C5 words it.
StatedRoomAirLabel ==
    <<"n", "o", " ", "s", "u", "p", "p", "l", "e", "m", "e", "n", "t", "a", "l", " ", "o", "x", "y", "g", "e", "n", " ", "(", "r", "o", "o", "m", " ", "a", "i", "r", ")">>

\* "No supplemental oxygen (room air)"
CapitalisedRoomAirLabel ==
    <<"N", "o", " ", "s", "u", "p", "p", "l", "e", "m", "e", "n", "t", "a", "l", " ", "o", "x", "y", "g", "e", "n", " ", "(", "r", "o", "o", "m", " ", "a", "i", "r", ")">>

\* "No supplemental oxygen"
RoomAirWithoutParenthetical ==
    <<"N", "o", " ", "s", "u", "p", "p", "l", "e", "m", "e", "n", "t", "a", "l", " ", "o", "x", "y", "g", "e", "n">>

ZeroFlow(x) == IsFiniteNumber(x) /\ FlowOf(x) = 0

\* C5 (as stated): for a flow rate of 0 the call returns exactly
\* (21.0, "no supplemental oxygen (room air)") and returns at once: no device
\* loop, no clamp, no rounding.
C5_RoomAirAsStated ==
    (Done /\ ZeroFlow(arg)) =>
        /\ outcome.kind = "return"
        /\ outcome.percentage = Tenths(210)
        /\ outcome.device = StatedRoomAirLabel
        /\ outcome.path = <<"validate">>

\* C5 (amended): for a flow rate of 0 the call returns exactly
\* (21.0, "No supplemental oxygen (room air)"), the label with a capital N,
\* and returns at once: no device loop, no clamp, no rounding.
C5_RoomAirCapitalised ==
    (Done /\ ZeroFlow(arg)) =>
        /\ outcome.kind = "return"
        /\ outcome.percentage = Tenths(210)
        /\ outcome.device = CapitalisedRoomAirLabel
        /\ outcome.path = <<"validate">>
        /\ outcome.logged = 0

C5_Witness ==
    /\ arg = PyFloatObj(Num(0))
    /\ outcome.kind = "return"
    /\ outcome.path = <<"validate">>

SixAndAHalf == PyFloatObj(Fin(6 * Scale + Scale \div 2))

\* C6 (as stated): for a flow rate of 6.5 the call returns
\* (44.0, Simple Mask).
C6_SixAndAHalfAsStated ==
    (Done /\ arg = SixAndAHalf) =>
        /\ outcome.kind = "return"
        /\ outcome.percentage = Tenths(440)
        /\ outcome.device = SIMPLE_MASK

\* C6 (amended): for a flow rate of 6.5 the call returns
\* (46.0, Simple Mask), the value 40 + 4 * (6.5 - 5).
C6_SixAndAHalfGives46 ==
    (Done /\ arg = SixAndAHalf) =>
        /\ outcome.kind = "return"
        /\ outcome.percentage = Tenths(460)
        /\ outcome.device = SIMPLE_MASK

C6_Witness ==
    /\ arg = SixAndAHalf
    /\ outcome.kind = "return"
    /\ outcome.device = SIMPLE_MASK

C8_MonotoneWithinBand ==
    (/\ BothDone
     /\ FlowOf(arg) <= FlowOf(arg2)
     /\ BandOf(FlowOf(arg)) # 0
     /\ BandOf(FlowOf(arg)) = BandOf(FlowOf(arg2))) =>
        /\ outcome.kind = "return"
        /\ outcome2.kind = "return"
        /\ outcome.percentage.val <= outcome2.percentage.val

C8_Witness ==
    /\ BothDone
    /\ BandOf(FlowOf(arg)) = 3
    /\ BandOf(FlowOf(arg2)) = 3
    /\ FlowOf(arg) < FlowOf(arg2)
    /\ outcome.percentage.val < outcome2.percentage.val

\* C9: a flow rate of 6 returns (45.0, Nasal Cannula) and a flow rate of 6.01
\* returns (44.0, Simple Mask): the percentage drops by one unit as the flow
\* rate crosses 6 upward.
C9_DropOfOneAtSix ==
    (/\ BothDone
     /\ arg = PyFloatObj(Num(6))
     /\ arg2 = PyFloatObj(Fin(6 * Scale + (Scale \div 100)))) =>
        /\ outcome.kind = "return"
        /\ outcome2.kind = "return"
        /\ outcome.percentage = Tenths(450)
        /\ outcome.device = NASAL_CANNULA
        /\ outcome2.percentage = Tenths(440)
        /\ outcome2.device = SIMPLE_MASK
        /\ outcome.percentage.val - outcome2.percentage.val = 1 * Scale

C9_Witness ==
    /\ BothDone
    /\ arg = PyFloatObj(Num(6))
    /\ arg2 = PyFloatObj(Fin(6 * Scale + (Scale \div 100)))
    /\ outcome2.device = SIMPLE_MASK

\* The reference table as C10 describes it.
ExpectedTable ==
    <<
       [flow |-> 0, o2 |-> <<"2", "1", ".", "0", "%">>, device |-> RoomAirWithoutParenthetical],
       [flow |-> 1, o2 |-> <<"2", "5", ".", "0", "%">>, device |-> NASAL_CANNULA],
       [flow |-> 2, o2 |-> <<"2", "9", ".", "0", "%">>, device |-> NASAL_CANNULA],
       [flow |-> 3, o2 |-> <<"3", "3", ".", "0", "%">>, device |-> NASAL_CANNULA],
       [flow |-> 4, o2 |-> <<"3", "7", ".", "0", "%">>, device |-> NASAL_CANNULA],
       [flow |-> 5, o2 |-> <<"4", "1", ".", "0", "%">>, device |-> NASAL_CANNULA],
       [flow |-> 6, o2 |-> <<"4", "5", ".", "0", "%">>, device |-> NASAL_CANNULA],
       [flow |-> 8, o2 |-> <<"5", "2", ".", "0", "%">>, device |-> SIMPLE_MASK],
       [flow |-> 10, o2 |-> <<"6", "0", ".", "0", "%">>, device |-> SIMPLE_MASK],
       [flow |-> 12, o2 |-> <<"6", "6", ".", "0", "%">>, device |-> NON_REBREATHER],
       [flow |-> 15, o2 |-> <<"7", "5", ".", "0", "%">>, device |-> NON_REBREATHER]
    >>

\* `d` is `label` cut at its first " (", or all of `label` when it has none.
IsCutAtParenthesis(d, label) ==
    /\ Len(d) <= Len(label)
    /\ d = SubSeq(label, 1, Len(d))
    /\ \A i \in 1..Len(d) :
          i < Len(label) => ~ (label[i] = " " /\ label[i + 1] = "(")
    /\ \/ Len(d) = Len(label)
       \/ /\ Len(d) + 2 <= Len(label)
          /\ label[Len(d) + 1] = " "
          /\ label[Len(d) + 2] = "("

\* The number of tenths a text such as "45.0%" shows.
ShownTenths(text) == DigitsValue(SelectSeq(text, IsDigit))

\* C10: generate_reference_table makes one row for each of the flow values
\* 0,1,2,3,4,5,6,8,10,12,15, in that order and none skipped (no row raises,
\* no warning is shown); each row carries the percentage and the device that
\* calculate_oxygen_percentage returns for its flow, the device cut at its
\* first " (", so that the room-air row shows "No supplemental oxygen".
C10_ReferenceTableRows ==
    table.generated =>
        /\ warnings = 0
        /\ Len(table.rows) = 11
        /\ [i \in 1..Len(table.rows) |-> table.rows[i].flow]
              = <<0, 1, 2, 3, 4, 5, 6, 8, 10, 12, 15>>
        /\ table.rows = ExpectedTable
        /\ \A i \in 1..Len(table.rows) :
              LET r == calculate_oxygen_percentage(PyIntObj(table.rows[i].flow))
              IN  /\ r.kind = "return"
                  /\ ShownTenths(table.rows[i].o2) * Tenth = r.percentage.val
                  /\ IsCutAtParenthesis(table.rows[i].device, r.device)

C10_Witness ==
    /\ table.generated
    /\ Len(table.rows) = 11
    /\ table.rows[1].device = RoomAirWithoutParenthetical
    /\ table.rows[11].device = NON_REBREATHER

=============================================================================
